---- MODULE Spec2Model ----
(***************************************************************************)
(* A model of gitjuggling: the .gitmodules parser (src/src/gitmodules.rs), *)
(* the repository walk and the command dispatcher (src/src/main.rs).       *)
(*                                                                         *)
(* Text is a sequence of one-character strings; a path is a sequence of    *)
(* segments, each segment a text.                                          *)
(***************************************************************************)
EXTENDS Integers, Sequences, FiniteSets, TLC

VARIABLES
    \* ---- GitModulesParser (gitmodules.rs) ----
    doc,            \* the description the file contents were written from
    cut,            \* where the contents were truncated (-1: not truncated)
    contents,       \* the text handed to GitModules::parse
    input,          \* GitModulesParser.input: the text not consumed yet
    submodules,     \* result.submodules inside GitModulesParser::parse
    parsed,         \* "parsing", "Ok" or "InvalidFile": what parse returned
    \* ---- main (main.rs) ----
    pc,                  \* where main is
    ncpus,               \* the machine's logical CPUs
    num_threads,         \* the threads of rayon's global pool, once built
    repositories_paths,  \* what get_repositories_paths returned
    worker,              \* per pool thread: the index it is running the closure for, or 0
    child,               \* per index: the subprocess git was started as
    results,             \* per index: the Item the closure returned (collect keeps the order)
    succeeded,           \* the partition of results
    failed,
    exit_code,           \* the status the process ended with (-1: still running)
    discovery,           \* what get_repositories_paths returned: "none" yet, "Ok", "Err"
    printed,             \* the indices whose output was printed, in the order printed
    \* ---- get_repositories_paths (main.rs) ----
    tree,           \* the entries under the directory walked: paths relative to it
    gm_docs,        \* per directory holding a .gitmodules: what the file declares
    depth,          \* the depth argument
    gone,           \* the entries that vanished after their directory listed them
    denied,         \* the entries whose resolution fails with another error
    wpc,            \* "start", "walking", or what the function returned: "Ok", "Err"
    stack,          \* WalkDir: per directory being read, its entries not yet yielded
    gitmodules,     \* the local gitmodules: Option<GitModules>
    walk_paths      \* the local repositories_paths

parserVars == <<doc, cut, contents, input, submodules, parsed>>
mainVars == <<pc, ncpus, num_threads, repositories_paths, worker, child, results,
              succeeded, failed, exit_code, discovery, printed>>
walkVars == <<tree, gm_docs, depth, gone, denied, wpc, stack, gitmodules, walk_paths>>
vars == <<parserVars, mainVars, walkVars>>

\* What the parser's steps, main's and the walk's leave alone.
notParser == <<mainVars, walkVars>>
notMain == <<parserVars, walkVars>>
notWalk == <<parserVars, mainVars>>

\* The parts of the program a specification does not run stay as they are here.
ParserIdle ==
    /\ doc = [lead |-> FALSE, eol |-> FALSE, sections |-> <<>>]
    /\ cut = -1
    /\ contents = <<>>
    /\ input = <<>>
    /\ submodules = <<>>
    /\ parsed = "idle"

MainIdle ==
    /\ pc = "idle"
    /\ ncpus = 1
    /\ num_threads = 0
    /\ repositories_paths = <<>>
    /\ worker = <<>>
    /\ child = <<>>
    /\ results = <<>>
    /\ succeeded = <<>>
    /\ failed = <<>>
    /\ exit_code = -1
    /\ discovery = "none"
    /\ printed = <<>>

WalkIdle ==
    /\ tree = {}
    /\ gm_docs = <<>>
    /\ depth = 0
    /\ gone = {}
    /\ denied = {}
    /\ wpc = "idle"
    /\ stack = <<>>
    /\ gitmodules = <<>>
    /\ walk_paths = <<>>

----------------------------------------------------------------------------
(* Strings *)

\* str::find and the slices the parser takes.
Drop(s, n) == SubSeq(s, n + 1, Len(s))
Take(s, n) == SubSeq(s, 1, n)

starts_with(s, p) == Len(s) >= Len(p) /\ Take(s, Len(p)) = p

\* str::find: the byte offset (from 0) of the first match, -1 for None.
find(s, p) ==
    LET hits == {i \in 0..(Len(s) - Len(p)) : SubSeq(s, i + 1, i + Len(p)) = p}
    IN  IF hits = {} THEN -1 ELSE CHOOSE i \in hits : \A j \in hits : i <= j

\* char::is_whitespace, for the characters the model's texts hold.
WhiteSpace == {" ", "\t", "\n", "\r"}

RECURSIVE trim_start(_)
trim_start(s) ==
    IF s # <<>> /\ Head(s) \in WhiteSpace THEN trim_start(Tail(s)) ELSE s

RECURSIVE trim_end(_)
trim_end(s) ==
    IF s # <<>> /\ s[Len(s)] \in WhiteSpace THEN trim_end(Take(s, Len(s) - 1)) ELSE s

\* str::trim
trim(s) == trim_end(trim_start(s))

----------------------------------------------------------------------------
(* GitModulesParser *)

\* Option<String>: <<>> is None, <<v>> is Some(v).
None == <<>>
Some(v) == <<v>>

\* eat_whitespace skips spaces, tabs and newlines only.
RECURSIVE eat_whitespace(_)
eat_whitespace(s) ==
    IF s # <<>> /\ Head(s) \in {" ", "\t", "\n"} THEN eat_whitespace(Tail(s)) ELSE s

\* expect_string: Ok with the rest of the input, or InvalidFile.
expect_string(s, expected) ==
    IF ~starts_with(s, expected)
    THEN [tag |-> "InvalidFile", input |-> s]
    ELSE [tag |-> "Ok", input |-> Drop(s, Len(expected))]

\* parse_quoted_string without its check of the opening quote.
parse_quoted_string_unchecked(s) ==
    LET pos == find(s, <<"\"", "]">>)
    IN  IF pos >= 0
        THEN [tag |-> "Ok", input |-> Drop(s, pos + 2), value |-> Take(s, pos)]
        ELSE [tag |-> "InvalidFile", input |-> s, value |-> <<>>]

\* parse_quoted_string: the text between a leading " and the first "].
parse_quoted_string(s) ==
    IF ~starts_with(s, <<"\"">>)
    THEN [tag |-> "InvalidFile", input |-> s, value |-> <<>>]
    ELSE LET rest == Drop(s, 1)
             pos  == find(rest, <<"\"", "]">>)
         IN  IF pos >= 0
             THEN [tag |-> "Ok", input |-> Drop(rest, pos + 2), value |-> Take(rest, pos)]
             ELSE [tag |-> "InvalidFile", input |-> rest, value |-> <<>>]

\* parse_until_or_err without the trim of what it read.
parse_until_or_err_untrimmed(s, ch) ==
    LET pos == find(s, <<ch>>)
    IN  IF pos >= 0
        THEN [tag |-> "Ok", input |-> Drop(s, pos + 1), value |-> Take(s, pos)]
        ELSE [tag |-> "EOF", input |-> s, value |-> <<>>]

\* parse_until_or_err: the trimmed text before the first ch, or EOF.
parse_until_or_err(s, ch) ==
    LET pos == find(s, <<ch>>)
    IN  IF pos >= 0
        THEN [tag |-> "Ok", input |-> Drop(s, pos + 1), value |-> trim(Take(s, pos))]
        ELSE [tag |-> "EOF", input |-> s, value |-> <<>>]

\* parse_until: the trimmed text before the first ch, or all that is left.
parse_until(s, ch) ==
    LET pos == find(s, <<ch>>)
    IN  IF pos >= 0
        THEN [input |-> Drop(s, pos + 1), value |-> trim(Take(s, pos))]
        ELSE [input |-> <<>>, value |-> trim(s)]

parse_until_eol(s) == parse_until(s, "\n")

\* HashMap::insert: a later value for a key replaces the earlier one.
insert(data, key, value) ==
    [k \in DOMAIN data \cup {key} |-> IF k = key THEN value ELSE data[k]]

\* HashMap::get(key).map(to_string)
get(data, key) == IF key \in DOMAIN data THEN Some(data[key]) ELSE None

unwrap_or_default(opt) == IF opt = None THEN <<>> ELSE opt[1]

\* The 'l loop of parse_submodule: the key = value lines of one section.
RECURSIVE key_values(_, _)
key_values(s, data) ==
    LET s1 == eat_whitespace(s)
    IN  IF starts_with(s1, <<"[">>)
        THEN [input |-> s1, data |-> data]
        ELSE LET key == parse_until_or_err(s1, "=")
             IN  IF key.tag = "EOF"
                 THEN [input |-> s1, data |-> data]
                 ELSE LET value == parse_until_eol(key.input)
                      IN  key_values(value.input, insert(data, key.value, value.value))

KeyPath == <<"p", "a", "t", "h">>
KeyUrl == <<"u", "r", "l">>
KeyBranch == <<"b", "r", "a", "n", "c", "h">>
SubmodulePrefix == <<"[", "s", "u", "b", "m", "o", "d", "u", "l", "e", " ">>

\* parse_submodule: one [submodule "<name>"] section.
parse_submodule(s) ==
    LET s1     == eat_whitespace(s)
        prefix == expect_string(s1, SubmodulePrefix)
        name   == parse_quoted_string(prefix.input)
        kv     == key_values(name.input, <<>>)
    IN  IF prefix.tag # "Ok" THEN [tag |-> "InvalidFile", input |-> prefix.input]
        ELSE IF name.tag # "Ok" THEN [tag |-> "InvalidFile", input |-> name.input]
        ELSE [tag |-> "Ok",
              input |-> kv.input,
              submodule |-> [name   |-> name.value,
                             path   |-> unwrap_or_default(get(kv.data, KeyPath)),
                             url    |-> unwrap_or_default(get(kv.data, KeyUrl)),
                             branch |-> get(kv.data, KeyBranch)]]

\* GitModulesParser::parse, the whole loop: what GitModules::parse returns.
RECURSIVE parse_loop(_, _)
parse_loop(s, acc) ==
    IF s = <<>> THEN [tag |-> "Ok", submodules |-> acc]
    ELSE LET r == parse_submodule(s)
         IN  IF r.tag = "Ok" THEN parse_loop(r.input, Append(acc, r.submodule))
             ELSE [tag |-> "InvalidFile", submodules |-> <<>>]

GitModules_parse(text) == parse_loop(text, <<>>)

----------------------------------------------------------------------------
(* The texts the parser is run on.  A text is written from a description:  *)
(* a sequence of sections, each a header and the lines of its body; the    *)
(* description is what the input says, the text is what the parser reads.  *)

MaxSections == 2

HeaderKinds == {"ok", "noquote", "noprefix", "unterminated"}
BodyKinds == {"none", "path", "full"}

SectionDescs == [hdr : HeaderKinds, body : BodyKinds]

SeqsUpTo(S, n) == UNION {[1..k -> S] : k \in 0..n}

Docs == [lead : BOOLEAN, eol : BOOLEAN, sections : SeqsUpTo(SectionDescs, MaxSections)]

RECURSIVE Concat(_)
Concat(ss) == IF ss = <<>> THEN <<>> ELSE Head(ss) \o Concat(Tail(ss))

Digits == <<"1", "2", "3", "4", "5", "6", "7", "8", "9">>

\* The name of the i-th section of a text.
NameOf(i) == <<"m", Digits[i]>>

Line(indent, key, eq, value, trail) ==
    [indent |-> indent, key |-> key, eq |-> eq, value |-> value, trail |-> trail]

\* The key = value lines of a body: indented or not, with and without spaces
\* around the =, a value holding a =, an unrecognized key.
BodyLines(body) ==
    CASE body = "none" -> <<>>
      [] body = "path" -> <<Line(<<>>, KeyPath, <<" ", "=", " ">>, <<"l", "i", "b">>, <<>>)>>
      [] body = "full" ->
            <<Line(<<"\t">>, KeyPath, <<" ", "=", " ">>, <<"v", "/", "l", "i", "b">>, <<>>),
              Line(<<" ", " ">>, KeyUrl, <<"=">>, <<"g", "=", "h">>, <<" ">>),
              Line(<<"\t">>, KeyBranch, <<" ", "=", " ">>, <<"d", "e", "v">>, <<>>),
              Line(<<"\t">>, <<"f", "o", "o">>, <<" ", "=", " ">>, <<"b", "a", "r">>, <<>>)>>

RenderLine(l) == l.indent \o l.key \o l.eq \o l.value \o l.trail \o <<"\n">>

RenderBody(body) ==
    Concat([i \in 1..Len(BodyLines(body)) |-> RenderLine(BodyLines(body)[i])])
    \o (IF body = "full" THEN <<"\n">> ELSE <<>>)     \* a blank line ends a full body

\* A header up to and including its closing "] (where it has one).
RenderHeader(hdr, name) ==
    CASE hdr = "ok"           -> SubmodulePrefix \o <<"\"">> \o name \o <<"\"", "]">>
      [] hdr = "noquote"      -> SubmodulePrefix \o name \o <<"]">>
      [] hdr = "noprefix"     -> <<"[", "s", "u", "b", " ", "\"">> \o name \o <<"\"", "]">>
      [] hdr = "unterminated" -> SubmodulePrefix \o <<"\"">> \o name

RenderSection(sd, i) == RenderHeader(sd.hdr, NameOf(i)) \o <<"\n">> \o RenderBody(sd.body)

RenderSections(d, n) == Concat([i \in 1..n |-> RenderSection(d.sections[i], i)])

Lead(d) == IF d.lead THEN <<"\n">> ELSE <<>>

\* The text of a description; without eol the text does not end in a newline.
Render(d) ==
    LET all == Lead(d) \o RenderSections(d, Len(d.sections))
    IN  IF d.eol \/ d.sections = <<>> THEN all ELSE trim_end(all)

\* Offsets into Render(d): where section i starts, and where its header ends.
SectionStart(d, i) == Len(Lead(d)) + Len(RenderSections(d, i - 1))
HeaderEnd(d, i) == SectionStart(d, i) + Len(RenderHeader(d.sections[i].hdr, NameOf(i)))
SectionEnd(d, i) ==
    IF i = Len(d.sections) THEN Len(Render(d)) ELSE SectionStart(d, i + 1)

\* What the description says: the value of the last line with that key.
RECURSIVE Lookup(_, _)
Lookup(lines, key) ==
    IF lines = <<>> THEN None
    ELSE IF lines[Len(lines)].key = key THEN Some(lines[Len(lines)].value)
    ELSE Lookup(Take(lines, Len(lines) - 1), key)

Declared(sd, i) ==
    [name   |-> NameOf(i),
     path   |-> unwrap_or_default(Lookup(BodyLines(sd.body), KeyPath)),
     url    |-> unwrap_or_default(Lookup(BodyLines(sd.body), KeyUrl)),
     branch |-> Lookup(BodyLines(sd.body), KeyBranch)]

Expected(d, n) == [i \in 1..n |-> Declared(d.sections[i], i)]

WellFormed(d) == \A i \in 1..Len(d.sections) : d.sections[i].hdr = "ok"

----------------------------------------------------------------------------
(* GitModules::parse, one iteration of its loop at a time *)

ParserInit ==
    /\ doc \in Docs
    /\ cut \in (IF WellFormed(doc) THEN -1..(Len(Render(doc)) - 1) ELSE {-1})
    /\ contents = (IF cut = -1 THEN Render(doc) ELSE Take(Render(doc), cut))
    /\ input = contents
    /\ submodules = <<>>
    /\ parsed = "parsing"

\* The loop body: parse_submodule, its result pushed or its error returned.
\* (parse_submodule never returns ParseError::EOF: it handles the one EOF it
\* can meet itself; the arm of parse for it is never taken.)
ParseSubmodule ==
    /\ parsed = "parsing"
    /\ input # <<>>
    /\ LET r == parse_submodule(input)
       IN  \/ /\ r.tag = "Ok"
              /\ submodules' = Append(submodules, r.submodule)
              /\ input' = r.input
              /\ parsed' = parsed
           \/ /\ r.tag = "InvalidFile"
              /\ submodules' = <<>>
              /\ input' = r.input
              /\ parsed' = "InvalidFile"
    /\ UNCHANGED <<notParser, doc, cut, contents>>

\* The loop's exit: Ok(result).
ParseReturn ==
    /\ parsed = "parsing"
    /\ input = <<>>
    /\ parsed' = "Ok"
    /\ UNCHANGED <<notParser, doc, cut, contents, input, submodules>>

ParserNext == ParseSubmodule \/ ParseReturn

InitParser == ParserInit /\ MainIdle /\ WalkIdle

SpecParser == InitParser /\ [][ParserNext]_vars

----------------------------------------------------------------------------
(* The parser's claims *)

Returned == parsed # "parsing"

Malformed(d) == {i \in 1..Len(d.sections) : d.sections[i].hdr # "ok"}
FirstMalformed(d) == CHOOSE k \in Malformed(d) : \A j \in Malformed(d) : k <= j

C8_MalformedAnywhere ==
    (Returned /\ Malformed(doc) # {})
        => parsed = "InvalidFile" /\ submodules = <<>>

\* The first malformed header stops the parser: it lacks the prefix or the
\* opening quote, or no "] at all follows its unterminated name.
Fatal(d) ==
    LET k == FirstMalformed(d)
    IN  \/ d.sections[k].hdr \in {"noquote", "noprefix"}
        \/ find(Drop(Render(d), HeaderEnd(d, k)), <<"\"", "]">>) = -1

\* C8 amended: a header without the `[submodule ` prefix or without the opening
\* quote is fatal wherever it stands, and so is an unterminated name when no "]
\* follows it anywhere in the text: parse returns the malformed-file error and
\* no declarations, whatever well-formed sections came first. (An unterminated
\* name followed by a later "] runs on to it and is accepted.)
C8_MalformedFatal ==
    (Returned /\ Malformed(doc) # {} /\ Fatal(doc))
        => parsed = "InvalidFile" /\ submodules = <<>>

C8_Witness ==
    /\ parsed = "InvalidFile"
    /\ Len(doc.sections) = 2
    /\ doc.sections[1].hdr = "ok" /\ doc.sections[1].body = "full"
    /\ doc.sections[2].hdr = "unterminated"

\* The cut falls in the body of section i: after the header's closing "] and
\* not past the start of the next header.
InBody(d, c, i) == HeaderEnd(d, i) <= c /\ c <= SectionEnd(d, i)

\* C9: a well-formed text cut anywhere in the body of a section (directly
\* after its header, between its lines, inside a key or a value) parses: the
\* result is Ok and holds the sections before the cut in full and the cut one.
C9_TruncatedParses ==
    \A i \in 1..Len(doc.sections) :
        (Returned /\ cut >= 0 /\ WellFormed(doc) /\ InBody(doc, cut, i))
            => /\ parsed = "Ok"
               /\ Len(submodules) = i
               /\ \A j \in 1..(i - 1) : submodules[j] = Declared(doc.sections[j], j)
               /\ submodules[i].name = NameOf(i)

\* Cut in the middle of the second section's first key (`\n\tpa`).
C9_Witness ==
    /\ parsed = "Ok" /\ cut >= 0
    /\ Len(doc.sections) = 2 /\ doc.sections[2].body = "full"
    /\ cut = HeaderEnd(doc, 2) + 4
    /\ Len(submodules) = 2 /\ submodules[2].path = <<>>

----------------------------------------------------------------------------
(* get_repositories_paths: the walk *)

MaxDepth == 3       \* the depth argument is in 0..MaxDepth

DotGit == <<".", "g", "i", "t">>
DotGitmodules == <<".", "g", "i", "t", "m", "o", "d", "u", "l", "e", "s">>
Lib == <<"l", "i", "b">>
Vendor == <<"v">>
Sib == <<"s", "i", "b">>
Bare == <<"b", ".", "g", "i", "t">>     \* a directory named b.git
Link == <<"l">>                         \* a symbolic link named l

\* The canonical path of the directory main runs in ("."): /w.
Cwd == << <<"w">> >>

\* What the symbolic link l points to.
LinkTarget == <<Vendor, Lib, DotGit>>

\* The entries a walked tree may hold, as paths relative to the directory
\* walked. The directory walked may be a repository with a .gitmodules, with
\* nested repositories at lib, v/lib and sib; lib may have a .gitmodules too;
\* sib/b.git is a directory whose name ends in .git, v/l a symbolic link to
\* v/lib/.git.
Universe ==
    { <<DotGit>>, <<DotGitmodules>>,
      <<Lib>>, <<Lib, DotGit>>, <<Lib, DotGitmodules>>,
      <<Vendor>>, <<Vendor, Lib>>, <<Vendor, Lib, DotGit>>, <<Vendor, Link>>,
      <<Sib>>, <<Sib, DotGit>>, <<Sib, Bare>> }

Parent(p) == Take(p, Len(p) - 1)
Last(p) == p[Len(p)]

Trees == {t \in SUBSET Universe : \A p \in t : Len(p) = 1 \/ Parent(p) \in t}

\* What a .gitmodules of the tree may hold: one section declaring path = lib,
\* one declaring path = v/lib, both, or a header without its quotes.
WalkDocs ==
    { [lead |-> FALSE, eol |-> TRUE, sections |-> <<[hdr |-> "ok", body |-> "path"]>>],
      [lead |-> TRUE, eol |-> FALSE, sections |-> <<[hdr |-> "ok", body |-> "full"]>>],
      [lead |-> FALSE, eol |-> TRUE,
       sections |-> <<[hdr |-> "ok", body |-> "path"], [hdr |-> "ok", body |-> "full"]>>],
      [lead |-> FALSE, eol |-> TRUE, sections |-> <<[hdr |-> "noquote", body |-> "path"]>>] }

\* The directories of a tree that hold a .gitmodules file.
WithGitmodules(t) == {Parent(p) : p \in {q \in t : Last(q) = DotGitmodules}}

IsSymlink(p) == p # <<>> /\ Last(p) = Link
IsDir(p) == p = <<>> \/ Last(p) \notin {DotGitmodules, Link}
Children(p) == {q \in tree : Len(q) = Len(p) + 1 /\ Take(q, Len(p)) = p}

\* Path::to_string_lossy of a canonical path.
PathString(path) ==
    IF path = <<>> THEN <<"/">>
    ELSE Concat([i \in 1..Len(path) |-> <<"/">> \o path[i]])

ends_with(s, suffix) ==
    Len(s) >= Len(suffix) /\ SubSeq(s, Len(s) - Len(suffix) + 1, Len(s)) = suffix

\* str::split('/'), as Path::components reads a path's text.
RECURSIVE Split(_)
Split(s) ==
    LET pos == find(s, <<"/">>)
    IN  IF pos < 0 THEN <<s>> ELSE <<Take(s, pos)>> \o Split(Drop(s, pos + 1))

RootDir == <<"/">>
CurDir == <<".">>

\* Path::components of PathBuf::from(text): empty parts (repeated or trailing
\* separators) and `.` parts other than a leading one are dropped.
Components(s) ==
    LET parts == Split(s)
        Keep(i) == /\ parts[i] # <<>>
                   /\ (parts[i] = CurDir => i = 1)
        kept  == {i \in 1..Len(parts) : Keep(i)}
        RECURSIVE Pick(_)
        Pick(i) == IF i > Len(parts) THEN <<>>
                   ELSE (IF i \in kept THEN <<parts[i]>> ELSE <<>>) \o Pick(i + 1)
    IN  (IF starts_with(s, <<"/">>) THEN <<RootDir>> ELSE <<>>) \o Pick(1)

\* GitModules::contains: some submodule's path equals `path` (PathBuf equality
\* compares components).
contains(gm, path_components) ==
    \E k \in 1..Len(gm) : Components(gm[k].path) = path_components

\* is_submodule with the declarations of the nearest directory above the
\* repository that holds a .gitmodules which parses, whatever the current set.
is_submodule_of_nearest_ancestor(path, gm) ==
    LET repo == Parent(path)
        above == {n \in Len(Cwd)..(Len(repo) - 1) :
                    /\ (Drop(Take(repo, n), Len(Cwd)) \o <<DotGitmodules>>) \in tree
                    /\ GitModules_parse(Render(gm_docs[Drop(Take(repo, n), Len(Cwd))])).tag = "Ok"}
    IN  IF above = {} THEN FALSE
        ELSE LET n == CHOOSE x \in above : \A y \in above : y <= x
                 set == GitModules_parse(Render(gm_docs[Drop(Take(repo, n), Len(Cwd))])).submodules
             IN  contains(set, <<Last(repo)>>)

\* is_submodule: the last component of the parent of `path` is a declared path.
is_submodule(path, gm) ==
    IF gm = None THEN FALSE
    ELSE IF path = <<>> THEN FALSE                 \* "/" has no parent
    ELSE LET parent_path == Parent(path)
             tmp == IF parent_path = <<>> THEN <<RootDir>> ELSE <<Last(parent_path)>>
         IN  contains(gm[1], tmp)

\* entry_path.canonicalize() for the entry e (relative to the directory
\* walked): the absolute path with symbolic links resolved, the NotFound
\* error for an entry that is no longer there or a link to nothing, or
\* another error.
canonicalize(e) ==
    IF e \in gone THEN [tag |-> "NotFound", path |-> <<>>]
    ELSE IF e \in denied THEN [tag |-> "Other", path |-> <<>>]
    ELSE IF IsSymlink(e)
         THEN IF LinkTarget \in tree THEN [tag |-> "Ok", path |-> Cwd \o LinkTarget]
              ELSE [tag |-> "NotFound", path |-> <<>>]
    ELSE [tag |-> "Ok", path |-> Cwd \o e]

\* A canonical path under the directory walked, relative to it.
Relative(path) == Drop(path, Len(Cwd))

\* gitmodules_after with a parsed set added to the current one.
gitmodules_after_merging(e) ==
    LET r == canonicalize(e)
        d == Relative(r.path)
    IN  IF r.tag = "Ok" /\ (d \o <<DotGitmodules>>) \in tree
        THEN LET g == GitModules_parse(Render(gm_docs[d]))
             IN  IF g.tag = "Ok"
                 THEN Some(unwrap_or_default(gitmodules) \o g.submodules)
                 ELSE gitmodules
        ELSE gitmodules

\* The body of the loop for the entry e: the gitmodules it leaves, and the
\* repositories_paths it leaves.
gitmodules_after(e) ==
    LET r == canonicalize(e)
        d == Relative(r.path)
    IN  IF r.tag = "Ok" /\ (d \o <<DotGitmodules>>) \in tree     \* gitmodules_path.exists()
        THEN LET g == GitModules_parse(Render(gm_docs[d]))
             IN  IF g.tag = "Ok" THEN Some(g.submodules) ELSE gitmodules
        ELSE gitmodules

paths_after(e) ==
    LET r == canonicalize(e)
    IN  IF r.tag # "Ok" THEN walk_paths                       \* NotFound => continue
        ELSE IF ~ends_with(PathString(r.path), DotGit) THEN walk_paths
        ELSE IF is_submodule(r.path, gitmodules_after(e)) THEN walk_paths
        ELSE Append(walk_paths, Parent(r.path))               \* path.pop()

\* WalkDir: directories whose entries were all yielded are left.
RECURSIVE Unwind(_)
Unwind(st) ==
    IF st # <<>> /\ st[Len(st)] = {} THEN Unwind(Take(st, Len(st) - 1)) ELSE st

\* Descends with the directories at max_depth read as well.
DescendsOneMore(e) == IsDir(e) /\ Len(e) <= depth

\* WalkDir reads the directory e it yields when e is above max_depth (a
\* symbolic link is not followed).
Descends(e) == IsDir(e) /\ Len(e) < depth

\* WalkDir after yielding e: the entries of e come next. A directory that
\* vanished lists nothing.
Descend(st, e) ==
    Unwind(IF Descends(e) THEN Append(st, IF e \in gone THEN {} ELSE Children(e)) ELSE st)

\* What opening the directory e gives WalkDir: a directory that vanished
\* before it was opened gives an error, which the walker yields next.
read_dir(e) == IF Descends(e) /\ e \in gone THEN {"Ok", "Err"} ELSE {"Ok"}

\* The entries the walker has still to yield.
Unvisited(st) == UNION {st[i] : i \in DOMAIN st}

MaxFaults == 1      \* at most MaxFaults entries of a tree vanish or fail

\* A walk without filesystem errors.
WalkInit ==
    /\ tree \in Trees
    /\ gm_docs \in [WithGitmodules(tree) -> WalkDocs]
    /\ depth \in 0..MaxDepth
    /\ gone = {}
    /\ denied = {}
    /\ wpc = "start"
    /\ stack = <<>>
    /\ gitmodules = None
    /\ walk_paths = <<>>

\* The trees walked with filesystem errors: no v, no b.git.
FaultTrees ==
    {t \in Trees : t \subseteq {<<DotGit>>, <<Lib>>, <<Lib, DotGit>>, <<Lib, DotGitmodules>>,
                                <<Sib>>, <<Sib, DotGit>>}}

\* A walk in which entries may vanish after they were listed, or fail to
\* resolve with another error.
WalkFaultsInit ==
    /\ tree \in FaultTrees
    /\ gm_docs \in [WithGitmodules(tree) -> WalkDocs]
    /\ depth \in 0..MaxDepth
    /\ gone \in SUBSET tree
    /\ denied \in SUBSET tree
    /\ gone \cap denied = {}
    /\ Cardinality(gone) + Cardinality(denied) <= MaxFaults
    /\ wpc = "start"
    /\ stack = <<>>
    /\ gitmodules = None
    /\ walk_paths = <<>>

\* The first entry WalkDir yields is the directory walked itself.
WalkRoot ==
    /\ wpc = "start"
    /\ gitmodules' = gitmodules_after(<<>>)
    /\ walk_paths' = paths_after(<<>>)
    /\ stack' = Descend(<<>>, <<>>)
    /\ wpc' = "walking"
    /\ UNCHANGED <<notWalk, tree, gm_docs, depth, gone, denied>>

\* One iteration of the loop: WalkDir yields an entry, in the order the
\* directory being read lists them, and the body runs on it. When the
\* entry's resolution fails with an error other than NotFound, or the walker
\* yields an error after it, the function returns Err and its locals are
\* dropped.
WalkEntry ==
    /\ wpc = "walking"
    /\ stack # <<>>
    /\ \E e \in stack[Len(stack)] : \E rd \in read_dir(e) :
        IF canonicalize(e).tag = "Other" \/ rd = "Err"
        THEN /\ wpc' = "Err"
             /\ gitmodules' = None
             /\ walk_paths' = <<>>
             /\ stack' = <<>>
        ELSE /\ wpc' = wpc
             /\ gitmodules' = gitmodules_after(e)
             /\ walk_paths' = paths_after(e)
             /\ stack' = Descend([stack EXCEPT ![Len(stack)] = @ \ {e}], e)
    /\ UNCHANGED <<notWalk, tree, gm_docs, depth, gone, denied>>

\* The walker is exhausted: Ok(repositories_paths).
WalkReturn ==
    /\ wpc = "walking"
    /\ stack = <<>>
    /\ wpc' = "Ok"
    /\ UNCHANGED <<notWalk, tree, gm_docs, depth, gone, denied, stack, gitmodules, walk_paths>>

WalkNext == WalkRoot \/ WalkEntry \/ WalkReturn

InitWalk == WalkInit /\ ParserIdle /\ MainIdle

SpecWalk == InitWalk /\ [][WalkNext]_vars

InitWalkFaults == WalkFaultsInit /\ ParserIdle /\ MainIdle

SpecWalkFaults == InitWalkFaults /\ [][WalkNext]_vars

----------------------------------------------------------------------------
(* The walk's claims *)

Range(f) == {f[i] : i \in DOMAIN f}

\* The directory d of the tree is a repository whose .gitmodules the walk
\* read and parsed successfully.
ParsedParent(d) ==
    /\ d \in WithGitmodules(tree)
    /\ (d \o <<DotGit>>) \in tree
    /\ Len(d) <= depth
    /\ GitModules_parse(Render(gm_docs[d])).tag = "Ok"

\* The paths the .gitmodules of d declares, each as its segments.
DeclaredPaths(d) ==
    {Split(Declared(gm_docs[d].sections[i], i).path) : i \in 1..Len(gm_docs[d].sections)}

\* The .git markers of the tree the walk visits.
Markers == {m \in tree : Last(m) = DotGit /\ Len(m) <= depth}

\* C2: submodule exclusion. When the walk has returned, for every repository
\* d whose .gitmodules it parsed: the root d/P of a visited marker d/P/.git is
\* not among the paths returned when the file declares path = P (of one or
\* of several segments), and the root d/s of a visited marker d/s/.git is
\* among them when s is not declared.
C2_SubmoduleExclusion ==
    wpc = "Ok" =>
        \A d \in {x \in WithGitmodules(tree) : ParsedParent(x)} :
            /\ \A P \in DeclaredPaths(d) :
                  (d \o P \o <<DotGit>>) \in Markers
                      => (Cwd \o d \o P) \notin Range(walk_paths)
            /\ \A m \in Markers :
                  (Len(m) = Len(d) + 2 /\ Take(m, Len(d)) = d
                   /\ <<m[Len(d) + 1]>> \notin DeclaredPaths(d))
                      => (Cwd \o Parent(m)) \in Range(walk_paths)

\* The visited entries whose canonical path ends in a segment that is
\* exactly .git: the markers themselves and the links that resolve to one.
ExactMarkers ==
    {e \in tree : /\ Len(e) <= depth
                  /\ canonicalize(e).tag = "Ok"
                  /\ Last(canonicalize(e).path) = DotGit}

\* C11: a path is appended only for an entry whose canonical path has a
\* final segment exactly equal to .git, and it is that path with the segment
\* stripped; an entry whose name merely ends in the characters .git adds
\* nothing.
C11_ExactMarkerOnly ==
    wpc \in {"walking", "Ok"} =>
        /\ \A i \in DOMAIN walk_paths :
              \E e \in ExactMarkers : canonicalize(e).path = walk_paths[i] \o <<DotGit>>
        /\ Len(walk_paths) <= Cardinality(ExactMarkers)

\* The step yields the entry e and runs the loop's body on it.
Visits(e) ==
    \/ wpc = "start" /\ wpc' # "start" /\ e = <<>>
    \/ wpc = "walking" /\ e \in Unvisited(stack) /\ e \notin Unvisited(stack')

\* What the .gitmodules of the directory d says, when all its headers are
\* well formed: the set a successful parse gives.
DeclaredSet(d) == Expected(gm_docs[d], Len(gm_docs[d].sections))
HoldsGoodFile(e) == e \in WithGitmodules(tree) /\ WellFormed(gm_docs[e])

\* The current set is no set or the set of one file of a visited directory.
OneCurrentSet ==
    \/ gitmodules = None
    \/ \E d \in WithGitmodules(tree) :
          Len(d) <= depth /\ WellFormed(gm_docs[d]) /\ gitmodules = Some(DeclaredSet(d))

\* A step that visits a directory whose .gitmodules parses makes that file's
\* set the current one; any other step leaves the current set as it is; and
\* no step ends the walk with an error.
SetFollowsLastParsed ==
    \A e \in tree \cup {<<>>} :
        Visits(e) =>
            /\ gitmodules' = IF HoldsGoodFile(e) THEN Some(DeclaredSet(e)) ELSE gitmodules
            /\ wpc' # "Err"

\* C12: at every point of the walk there is at most one current set, the one
\* of the .gitmodules parsed successfully most recently among the entries
\* visited so far: a successful parse replaces the set without merging, a
\* failed parse leaves it unchanged and does not stop the walk.
C12_CurrentSet == []OneCurrentSet /\ [][SetFollowsLastParsed]_vars

\* The walk returned after the set of /w/.gitmodules (path = lib) was replaced
\* by the set of /w/lib/.gitmodules (path = v/lib).
C12_Witness ==
    /\ wpc = "Ok"
    /\ HoldsGoodFile(<<>>) /\ HoldsGoodFile(<<Lib>>)
    /\ Len(DeclaredSet(<<>>)) = 1 /\ DeclaredSet(<<>>)[1].path = Lib
    /\ gitmodules = Some(DeclaredSet(<<Lib>>))
    /\ Len(gitmodules[1]) = 1 /\ gitmodules[1][1].path = <<"v", "/", "l", "i", "b">>

\* An entry is there when neither it nor a directory above it vanished.
StillThere(e) == \A n \in 1..Len(e) : Take(e, n) \notin gone

\* The name of the directory of the marker m is a path some .gitmodules of
\* the tree declares: the exclusion test may skip the repository.
MayBeExcluded(m) ==
    \E d \in WithGitmodules(tree) :
        /\ Len(d) <= depth
        /\ WellFormed(gm_docs[d])
        /\ <<Last(Cwd \o Parent(m))>> \in DeclaredPaths(d)

\* Every repository that is still there and that no .gitmodules may exclude
\* was returned.
OthersReturned ==
    \A m \in Markers :
        (StillThere(m) /\ ~MayBeExcluded(m)) => (Cwd \o Parent(m)) \in Range(walk_paths)

\* C14: when entries vanish between the listing of their directory and their
\* resolution (and nothing else fails), they are skipped: discovery does not
\* fail, and it returns every other repository of the tree.
C14_VanishedSkipped ==
    denied = {} =>
        /\ wpc # "Err"
        /\ wpc = "Ok" => OthersReturned

\* The current set declares a path that is the one segment `name`.
CurrentDeclares(name) ==
    /\ gitmodules # None
    /\ \E k \in 1..Len(gitmodules[1]) : Split(gitmodules[1][k].path) = <<name>>

\* A step that visits a marker skips the repository exactly when the name of
\* its directory is a path of the current set, wherever in the tree that set
\* was declared; otherwise it appends the repository.
ExclusionByCurrentSet ==
    \A e \in ExactMarkers :
        Visits(e) =>
            LET root == Parent(canonicalize(e).path)
            IN  walk_paths' = IF CurrentDeclares(Last(root)) THEN walk_paths
                              ELSE Append(walk_paths, root)

\* C15: exclusion uses the current set of the whole walk, not the
\* declarations of the nearest directory above: a repository whose
\* directory's final segment is a path of the current set is excluded, also
\* when the set was declared in an unrelated subtree visited before it.
C15_GlobalExclusion == [][ExclusionByCurrentSet]_vars

\* The only .gitmodules is lib's and declares path = lib; the unrelated
\* repository v/lib, visited after lib, was not returned.
C15_Witness ==
    /\ wpc = "Ok"
    /\ WithGitmodules(tree) = {<<Lib>>}
    /\ HoldsGoodFile(<<Lib>>)
    /\ DeclaredPaths(<<Lib>>) = {<<Lib>>}
    /\ <<Vendor, Lib, DotGit>> \in Markers
    /\ <<Vendor, Link>> \notin tree
    /\ (Cwd \o <<Vendor, Lib>>) \notin Range(walk_paths)

\* The .git markers of the tree, at any depth.
AllMarkers == {m \in tree : Last(m) = DotGit}

RootReturned(m) == (Cwd \o Parent(m)) \in Range(walk_paths)

\* The walker yields no entry deeper than max_depth.
NothingDeeper == \A e \in Unvisited(stack) : Len(e) <= depth

\* C17 as stated: the walker yields no entry deeper than max_depth, and a
\* repository that no .gitmodules may exclude is returned if and only if its
\* .git marker is at most max_depth levels below the directory walked.
C17_DepthBound ==
    /\ NothingDeeper
    /\ wpc = "Ok" =>
          \A m \in AllMarkers : ~MayBeExcluded(m) => (RootReturned(m) <=> Len(m) <= depth)

\* C17 amended: the walker yields no entry deeper than max_depth, and a
\* repository that no .gitmodules may exclude is returned if and only if an
\* entry at most max_depth levels below the directory walked resolves to its
\* .git marker: the marker itself, or a symbolic link to it.
C17_DepthBoundResolved ==
    /\ NothingDeeper
    /\ wpc = "Ok" =>
          \A m \in AllMarkers :
              ~MayBeExcluded(m) =>
                  (RootReturned(m) <=> \E e \in ExactMarkers : canonicalize(e).path = Cwd \o m)

\* With depth 2 the repository sib (marker at level 2) was returned and the
\* repository v/lib (marker at level 3) was not.
C17_Witness ==
    /\ wpc = "Ok"
    /\ WithGitmodules(tree) = {}
    /\ <<Vendor, Link>> \notin tree
    /\ <<Sib, DotGit>> \in tree /\ <<Vendor, Lib, DotGit>> \in tree
    /\ depth = 2
    /\ RootReturned(<<Sib, DotGit>>)
    /\ ~RootReturned(<<Vendor, Lib, DotGit>>)

\* C19: the sequence discovery returns never holds the same repository root
\* twice, also when several visited entries resolve to a marker under the
\* same directory.
C19_NoDuplicateRoots ==
    \A i, j \in DOMAIN walk_paths : i # j => walk_paths[i] # walk_paths[j]

\* Another directory's .gitmodules declares the name of the directory d.
DeclaredElsewhere(d) ==
    \E x \in WithGitmodules(tree) \ {d} :
        WellFormed(gm_docs[x]) /\ <<Last(Cwd \o d)>> \in DeclaredPaths(x)

\* C20: a repository that itself declares submodules (its .gitmodules parses,
\* its .git marker is within max_depth) and that no other .gitmodules
\* declares is returned, whatever its directory's name and whatever paths its
\* own .gitmodules declares.
C20_DeclaringRepositoryIncluded ==
    wpc = "Ok" =>
        \A d \in WithGitmodules(tree) :
            (ParsedParent(d) /\ Len(d) + 1 <= depth /\ ~DeclaredElsewhere(d))
                => (Cwd \o d) \in Range(walk_paths)

----------------------------------------------------------------------------
(* main: the pool, the dispatch of `git <args>` per repository, the report *)

MaxCpus == 2        \* the machines main is run on have 1..MaxCpus logical CPUs
MaxRepos == 3       \* get_repositories_paths returns at most MaxRepos paths
MaxExitCode == 1    \* git exits with a status in 0..MaxExitCode

\* The repository roots the walk may return (a root may come back more than once).
RepoRoots == {Cwd \o << <<"a">> >>, Cwd \o << <<"b">> >>}

\* num_threads(0) at ThreadPoolBuilder::new(): rayon then sizes the pool itself.
NumThreadsArg == 0
\* The status of a process that panicked, and of process::exit(1).
PanicExitCode == 101
FailureExitCode == 1

\* rayon's pool size: the builder's num_threads, or, when that is 0, the
\* machine's logical CPUs (RAYON_NUM_THREADS taken as unset).
current_num_threads(n, cpus) == IF n = 0 THEN cpus ELSE n

\* std::process::ExitStatus::success
status_success(code) == code = 0

\* The Item of a closure whose do_git_command returned Err(err).
ItemOfErr(path) ==
    [path |-> path, success |-> FALSE, stdout |-> <<>>, stderr |-> <<>>,
     err |-> Some("spawn error")]

\* ItemOfOutput with the exit status ignored.
ItemOfOutputAlwaysSuccess(path, code) ==
    [path |-> path, success |-> TRUE, stdout |-> <<"o">>, stderr |-> <<"e">>,
     err |-> None]

\* The Item of a closure whose do_git_command returned Ok(go).
ItemOfOutput(path, code) ==
    [path |-> path, success |-> status_success(code), stdout |-> <<"o">>,
     stderr |-> <<"e">>, err |-> None]

\* A slot of the collected Vec that no closure has filled yet.
NoItem == [path |-> <<>>, success |-> FALSE, stdout |-> <<>>, stderr |-> <<>>, err |-> None]

NoChild == [st |-> "none", code |-> -1]

Indices == 1..Len(repositories_paths)

MainInit ==
    /\ pc = "build_global"
    /\ ncpus \in 1..MaxCpus
    /\ num_threads = 0
    /\ repositories_paths = <<>>
    /\ worker = <<>>
    /\ child = <<>>
    /\ results = <<>>
    /\ succeeded = <<>>
    /\ failed = <<>>
    /\ exit_code = -1
    /\ discovery = "none"
    /\ printed = <<>>

\* rayon::ThreadPoolBuilder::new().num_threads(0).build_global()
BuildGlobal ==
    /\ pc = "build_global"
    /\ num_threads' = current_num_threads(NumThreadsArg, ncpus)
    /\ worker' = [w \in 1..num_threads' |-> 0]
    /\ pc' = "get_repositories_paths"
    /\ UNCHANGED <<notMain, discovery, printed, ncpus, repositories_paths, child, results, succeeded, failed, exit_code>>

\* get_repositories_paths returned Ok(v): the dispatch starts, one slot per path.
GetRepositoriesPathsOk ==
    /\ pc = "get_repositories_paths"
    /\ \E v \in SeqsUpTo(RepoRoots, MaxRepos) :
        /\ repositories_paths' = v
        /\ child' = [i \in 1..Len(v) |-> NoChild]
        /\ results' = [i \in 1..Len(v) |-> NoItem]
    /\ pc' = "dispatch"
    /\ discovery' = "Ok"
    /\ UNCHANGED <<notMain, printed, ncpus, num_threads, worker, succeeded, failed, exit_code>>

\* get_repositories_paths returned Err, and the paths found before the error
\* are dispatched all the same.
GetRepositoriesPathsErrKeepsFound ==
    /\ pc = "get_repositories_paths"
    /\ \E v \in SeqsUpTo(RepoRoots, MaxRepos) :
        /\ repositories_paths' = v
        /\ child' = [i \in 1..Len(v) |-> NoChild]
        /\ results' = [i \in 1..Len(v) |-> NoItem]
    /\ pc' = "dispatch"
    /\ discovery' = "Err"
    /\ UNCHANGED <<notMain, printed, ncpus, num_threads, worker, succeeded, failed, exit_code>>

\* get_repositories_paths returned Err: main panics.
GetRepositoriesPathsErr ==
    /\ pc = "get_repositories_paths"
    /\ pc' = "panicked"
    /\ exit_code' = PanicExitCode
    /\ discovery' = "Err"
    /\ UNCHANGED <<notMain, printed, ncpus, num_threads, repositories_paths, worker, child, results,
                   succeeded, failed>>

Pending(i) == child[i].st = "none"

\* Spawn with no look at what the thread is doing: a thread per path.
SpawnOnAnyThread(w, i) ==
    /\ pc = "dispatch"
    /\ Pending(i)
    /\ child' = [child EXCEPT ![i] = [st |-> "running", code |-> -1]]
    /\ worker' = [worker EXCEPT ![w] = i]
    /\ UNCHANGED <<notMain, discovery, printed, pc, ncpus, num_threads, repositories_paths, results, succeeded,
                   failed, exit_code>>

\* A pool thread with nothing to do takes a path and runs the closure on it:
\* do_git_command starts git there, and output() blocks the thread.
Spawn(w, i) ==
    /\ pc = "dispatch"
    /\ worker[w] = 0
    /\ Pending(i)
    /\ child' = [child EXCEPT ![i] = [st |-> "running", code |-> -1]]
    /\ worker' = [worker EXCEPT ![w] = i]
    /\ UNCHANGED <<notMain, discovery, printed, pc, ncpus, num_threads, repositories_paths, results, succeeded,
                   failed, exit_code>>

\* A spawn failure that takes the whole run down (an unwrap of the Err).
SpawnFailPanics(w, i) ==
    /\ pc = "dispatch"
    /\ worker[w] = 0
    /\ Pending(i)
    /\ child' = [child EXCEPT ![i] = [st |-> "spawn_failed", code |-> -1]]
    /\ pc' = "panicked"
    /\ exit_code' = PanicExitCode
    /\ UNCHANGED <<notMain, discovery, printed, ncpus, num_threads, repositories_paths, worker, results, succeeded,
                   failed>>

\* The same, but git could not be started: do_git_command returns Err and the
\* closure returns the Item of the error at once.
SpawnFail(w, i) ==
    /\ pc = "dispatch"
    /\ worker[w] = 0
    /\ Pending(i)
    /\ child' = [child EXCEPT ![i] = [st |-> "spawn_failed", code |-> -1]]
    /\ results' = [results EXCEPT ![i] = ItemOfErr(repositories_paths[i])]
    /\ UNCHANGED <<notMain, discovery, printed, pc, ncpus, num_threads, repositories_paths, worker, succeeded,
                   failed, exit_code>>

\* ChildExit with the Item pushed to the results in the order the closures
\* return: it takes the first slot not filled yet.
ChildExitPushes(w) ==
    /\ pc = "dispatch"
    /\ worker[w] # 0
    /\ \E code \in 0..MaxExitCode :
        LET i == worker[w]
            j == CHOOSE k \in 1..Len(results) :
                    results[k] = NoItem /\ \A l \in 1..(k - 1) : results[l] # NoItem
        IN  /\ child' = [child EXCEPT ![i] = [st |-> "exited", code |-> code]]
            /\ results' = [results EXCEPT ![j] = ItemOfOutput(repositories_paths[i], code)]
    /\ worker' = [worker EXCEPT ![w] = 0]
    /\ printed' = Append(printed, worker[w])
    /\ UNCHANGED <<notMain, discovery, pc, ncpus, num_threads, repositories_paths, succeeded, failed, exit_code>>

\* The subprocess of a thread terminates: output() returns, the closure
\* prints the output and returns the Item of it.
ChildExit(w) ==
    /\ pc = "dispatch"
    /\ worker[w] # 0
    /\ \E code \in 0..MaxExitCode :
        LET i == worker[w]
        IN  /\ child' = [child EXCEPT ![i] = [st |-> "exited", code |-> code]]
            /\ results' = [results EXCEPT ![i] = ItemOfOutput(repositories_paths[i], code)]
    /\ worker' = [worker EXCEPT ![w] = 0]
    /\ printed' = Append(printed, worker[w])
    /\ UNCHANGED <<notMain, discovery, pc, ncpus, num_threads, repositories_paths, succeeded, failed, exit_code>>

IsSuccess(item) == item.success
IsFailure(item) == ~item.success
IsItem(item) == item # NoItem
Filled == SelectSeq(results, IsItem)

\* A partition that does not wait for the closures still running.
PartitionEarly ==
    /\ pc = "dispatch"
    /\ succeeded' = SelectSeq(Filled, IsSuccess)
    /\ failed' = SelectSeq(Filled, IsFailure)
    /\ pc' = "report"
    /\ UNCHANGED <<notMain, discovery, printed, ncpus, num_threads, repositories_paths, worker, child, results, exit_code>>

\* A partition as soon as every path was handed to a thread.
PartitionWithoutJoin ==
    /\ pc = "dispatch"
    /\ \A i \in Indices : ~Pending(i)
    /\ succeeded' = SelectSeq(Filled, IsSuccess)
    /\ failed' = SelectSeq(Filled, IsFailure)
    /\ pc' = "report"
    /\ UNCHANGED <<notMain, discovery, printed, ncpus, num_threads, repositories_paths, worker, child, results, exit_code>>

\* collect() returns once every closure has returned; results is partitioned.
Partition ==
    /\ pc = "dispatch"
    /\ \A i \in Indices : results[i] # NoItem
    /\ succeeded' = SelectSeq(results, IsSuccess)
    /\ failed' = SelectSeq(results, IsFailure)
    /\ pc' = "report"
    /\ UNCHANGED <<notMain, discovery, printed, ncpus, num_threads, repositories_paths, worker, child, results, exit_code>>

\* The end of main with the exit status of a run that always succeeds.
ExitAlwaysZero ==
    /\ pc = "report"
    /\ exit_code' = 0
    /\ pc' = "exited"
    /\ UNCHANGED <<notMain, discovery, printed, ncpus, num_threads, repositories_paths, worker, child, results,
                   succeeded, failed>>

\* The report is printed; process::exit(1) if failed is not empty, else main returns.
Exit ==
    /\ pc = "report"
    /\ exit_code' = (IF failed # <<>> THEN FailureExitCode ELSE 0)
    /\ pc' = "exited"
    /\ UNCHANGED <<notMain, discovery, printed, ncpus, num_threads, repositories_paths, worker, child, results,
                   succeeded, failed>>

Threads == 1..num_threads

MainNext ==
    \/ BuildGlobal
    \/ GetRepositoriesPathsOk
    \/ GetRepositoriesPathsErr
    \/ \E w \in Threads, i \in Indices : Spawn(w, i)
    \/ \E w \in Threads, i \in Indices : SpawnFail(w, i)
    \/ \E w \in Threads : ChildExit(w)
    \/ Partition
    \/ Exit

Init == MainInit /\ ParserIdle /\ WalkIdle

Spec == Init /\ [][MainNext]_vars

\* Every thread of the pool is scheduled and every subprocess started ends.
FairSpec == Spec /\ WF_vars(MainNext)

----------------------------------------------------------------------------
(* The dispatcher's claims *)

\* How often path p occurs in a sequence of paths, and in a sequence of Items.
Occurrences(paths, p) == Cardinality({i \in 1..Len(paths) : paths[i] = p})
Count(items, p) == Cardinality({k \in 1..Len(items) : items[k].path = p})
CountErr(items, p) ==
    Cardinality({k \in 1..Len(items) : items[k].path = p /\ items[k].err # None})

Reported == pc \in {"report", "exited"}

\* What became of the command for the i-th path.
SpawnFailed(i) == child[i].st = "spawn_failed"
RanOk(i) == child[i].st = "exited" /\ child[i].code = 0
RanBad(i) == child[i].st = "exited" /\ child[i].code # 0
Running(i) == child[i].st = "running"

\* The positions at which path p was discovered.
Of(p) == {i \in Indices : repositories_paths[i] = p}

\* C1: outcome completeness. Once the results are partitioned there are as
\* many outcome records as discovered paths, and every path is, as often as it
\* was discovered, in succeeded or in failed: none lost, none twice; each
\* record of the collected results is the one of the path at its position.
C1_OutcomeCompleteness ==
    Reported =>
        /\ Len(succeeded) + Len(failed) = Len(repositories_paths)
        /\ \A p \in RepoRoots :
              Count(succeeded, p) + Count(failed, p) = Occurrences(repositories_paths, p)
        /\ \A i \in Indices : results[i].path = repositories_paths[i]

C1_Witness ==
    /\ pc = "report"
    /\ num_threads = 2
    /\ Len(repositories_paths) = 3
    /\ repositories_paths[1] # repositories_paths[2]
    /\ Len(succeeded) = 1 /\ Len(failed) = 2
    /\ succeeded[1].path = repositories_paths[3]

\* No step that records a spawn failure touches another path's subprocess or
\* Item, or ends the dispatch.
SpawnFailureIsLocal ==
    \A i \in Indices :
        (~SpawnFailed(i) /\ child'[i].st = "spawn_failed")
            => /\ pc' = pc
               /\ \A j \in Indices \ {i} : child'[j] = child[j] /\ results'[j] = results[j]

\* A path whose spawn failed has its Item: a failure carrying the error; after
\* the partition it is in failed, never in succeeded.
SpawnFailureRecorded ==
    /\ \A i \in Indices :
          (pc \in {"dispatch", "report", "exited"} /\ SpawnFailed(i))
              => /\ results[i].path = repositories_paths[i]
                 /\ ~results[i].success
                 /\ results[i].err # None
    /\ Reported =>
          \A p \in RepoRoots : /\ CountErr(failed, p) = Cardinality({i \in Of(p) : SpawnFailed(i)})
                               /\ CountErr(succeeded, p) = 0

AllReported == Reported /\ \A i \in Indices : results[i] # NoItem

\* C3: dispatch isolation. A spawn failure gives its path one failed outcome
\* carrying the error and aborts nothing: the step changes no other path's
\* dispatch, and (every started command ending) the run goes on to the report
\* with an outcome for every path.
C3_DispatchIsolation ==
    /\ []SpawnFailureRecorded
    /\ [][SpawnFailureIsLocal]_vars
    /\ ((\E i \in Indices : SpawnFailed(i)) ~> AllReported)

C3_Witness ==
    /\ AllReported
    /\ Len(repositories_paths) = 3
    /\ SpawnFailed(1) /\ RanOk(2) /\ RanBad(3)
    /\ Len(failed) = 2 /\ failed[1].err # None

\* C4: bounded concurrency. The subprocesses started and not yet terminated
\* never outnumber the threads of the pool.
C4_BoundedConcurrency ==
    Cardinality({i \in Indices : Running(i)}) <= num_threads

\* Every thread is busy and a path still waits.
C4_Witness ==
    /\ pc = "dispatch"
    /\ num_threads = 2
    /\ Cardinality({i \in Indices : Running(i)}) = 2
    /\ \E i \in Indices : Pending(i)

Failing(i) == SpawnFailed(i) \/ RanBad(i)

\* C5 as stated: the process ends with a non-zero status if and only if some
\* repository produced a failing outcome.
C5_ExitStatusIff ==
    exit_code # -1 => (exit_code # 0 <=> \E i \in Indices : Failing(i))

\* C5 amended: the process ends with a non-zero status if and only if some
\* repository produced a failing outcome or discovery failed (main panics
\* before any command is dispatched); in every other run the status is zero.
C5_ExitStatus ==
    exit_code # -1 =>
        /\ exit_code # 0 <=> (pc = "panicked" \/ \E i \in Indices : Failing(i))
        /\ pc = "panicked" => repositories_paths = <<>> /\ failed = <<>>
        /\ pc = "exited" => (exit_code # 0 <=> failed # <<>>)

C5_Witness ==
    /\ pc = "exited"
    /\ exit_code = FailureExitCode
    /\ \E i, j \in Indices : SpawnFailed(i) /\ RanOk(j)

\* C6: classification. After the partition, succeeded holds exactly the
\* outcomes of the commands that were started and ended with a success status,
\* failed exactly those whose spawn failed or whose status was not success;
\* nothing carrying a dispatch error is in succeeded.
C6_Classification ==
    Reported =>
        /\ \A p \in RepoRoots :
              /\ Count(succeeded, p) = Cardinality({i \in Of(p) : RanOk(i)})
              /\ Count(failed, p) = Cardinality({i \in Of(p) : Failing(i)})
        /\ \A k \in 1..Len(succeeded) : succeeded[k].success /\ succeeded[k].err = None
        /\ \A k \in 1..Len(failed) : ~failed[k].success

C6_Witness ==
    /\ pc = "report"
    /\ Len(repositories_paths) = 3
    /\ RanOk(1) /\ RanBad(2) /\ SpawnFailed(3)
    /\ Len(succeeded) = 1 /\ Len(failed) = 2

\* C10: the pool's size is the same on every machine, whatever its number of
\* logical CPUs.
C10_FixedWorkerCount ==
    pc # "build_global" =>
        \A c \in 1..MaxCpus : num_threads = current_num_threads(NumThreadsArg, c)

\* No command was started, nothing was printed, nothing partitioned.
NothingRan ==
    /\ repositories_paths = <<>>
    /\ child = <<>>
    /\ results = <<>>
    /\ printed = <<>>
    /\ succeeded = <<>>
    /\ failed = <<>>
    /\ \A w \in DOMAIN worker : worker[w] = 0

\* C13: when discovery fails with a fatal error the run ends there: main
\* panics, no command was or is ever started for any repository, no report or
\* summary is produced, and nothing happens afterwards.
C13_FatalDiscoveryStopsRun ==
    /\ [](discovery = "Err" => (pc = "panicked" /\ exit_code = PanicExitCode /\ NothingRan))
    /\ [][discovery # "Err"]_vars

C13_Witness ==
    /\ discovery = "Err"
    /\ pc = "panicked"
    /\ num_threads = 2
    /\ exit_code = PanicExitCode

\* C16: the partition, the summary and the exit are behind a join: while a
\* path waits for a thread or its subprocess is still running (for however
\* long) nothing is partitioned, nothing reported, and the process has not
\* exited; once reported, every path has its outcome.
C16_JoinBeforeReport ==
    /\ (\E i \in Indices : Pending(i) \/ Running(i))
          => (pc = "dispatch" /\ exit_code = -1 /\ succeeded = <<>> /\ failed = <<>>)
    /\ Reported => \A i \in Indices : results[i] # NoItem /\ ~Pending(i) /\ ~Running(i)

\* Every closure but one has returned, and the dispatch waits for the last.
C16_Witness ==
    /\ pc = "dispatch"
    /\ Len(repositories_paths) = 3
    /\ Running(2)
    /\ results[1] # NoItem /\ results[3] # NoItem
    /\ worker = <<0, 2>>
    /\ exit_code = -1

\* The indices of a set, increasing.
RECURSIVE InOrder(_)
InOrder(S) ==
    IF S = {} THEN <<>>
    ELSE LET m == CHOOSE x \in S : \A y \in S : x <= y
         IN  <<m>> \o InOrder(S \ {m})

PathsOf(items) == [k \in 1..Len(items) |-> items[k].path]
PathsAt(idx) == [k \in 1..Len(idx) |-> repositories_paths[idx[k]]]

\* C18: succeeded and failed each list their repositories in the order of
\* discovery, whatever the order in which the commands ended and whatever the
\* number of threads.
C18_DiscoveryOrder ==
    Reported =>
        /\ PathsOf(succeeded) = PathsAt(InOrder({i \in Indices : RanOk(i)}))
        /\ PathsOf(failed) = PathsAt(InOrder({i \in Indices : Failing(i)}))

\* The command of the third path ended before the one of the first; the
\* report lists the first before the third.
C18_Witness ==
    /\ pc = "report"
    /\ Len(repositories_paths) = 3
    /\ repositories_paths[1] # repositories_paths[3]
    /\ printed = <<3, 1>>
    /\ RanOk(1) /\ RanOk(3) /\ SpawnFailed(2)
    /\ PathsOf(succeeded) = <<repositories_paths[1], repositories_paths[3]>>

====
